---- MODULE Spec2Model ----
(***************************************************************************)
(* Post-build patch scripts of CodexDesktop-Rebuild.                       *)
(*                                                                         *)
(* scripts/patch-slash-commands.js parses the webview bundle, finds the    *)
(* declarators `x = obj.useGateValue("codex-extension-slash-commands")`    *)
(* and splices `(<init>||window.codexWindowType==="electron")` over each   *)
(* initializer.  scripts/patch-performance.js injects marker-guarded       *)
(* snippets into the main-process bundle.                                  *)
(* scripts/patch-node-pty-spectre.js removes the                           *)
(* msvs_configuration_attributes block from node-pty's .gyp files, in a    *)
(* one-file and a two-file version.                                        *)
(*                                                                         *)
(* A bundle text is a sequence of lexical tokens; an offset is an index    *)
(* into that sequence, counted from 0 as String.prototype.slice counts     *)
(* characters.                                                             *)
(***************************************************************************)
EXTENDS Integers, Sequences, FiniteSets, TLC

(***************************************************************************)
(* Bounds of the model.                                                    *)
(***************************************************************************)
MaxStmts == 2
MaxRuns == 2
MaxMissing == 1
MaxText == 4
MaxPatches == 2
MaxLines == 3
MaxTargetLines == 1
MaxDepth == 2

(***************************************************************************)
(* String.prototype helpers, offsets counted from 0.                       *)
(***************************************************************************)
Min(a, b) == IF a < b THEN a ELSE b
Max(a, b) == IF a > b THEN a ELSE b

\* s.slice(a, b): both ends clamped to the length, empty when a >= b.
Slice(s, a, b) ==
  LET lo == Min(Max(a, 0), Len(s))
      hi == Min(Max(b, 0), Len(s))
  IN IF lo >= hi THEN <<>> ELSE SubSeq(s, lo + 1, hi)

\* s.slice(a)
SliceFrom(s, a) == Slice(s, a, Len(s))

\* s.startsWith(sub, i)
MatchesAt(s, sub, i) ==
  /\ i >= 0
  /\ i + Len(sub) <= Len(s)
  /\ \A j \in 1..Len(sub) : s[i + j] = sub[j]

\* s.indexOf(sub, from): the first offset >= from where sub occurs, else -1.
IndexOfFrom(s, sub, from) ==
  LET hits == {i \in Max(from, 0)..(Len(s) - Len(sub)) : MatchesAt(s, sub, i)}
  IN IF hits = {} THEN -1 ELSE CHOOSE i \in hits : \A j \in hits : i <= j

IndexOf(s, sub) == IndexOfFrom(s, sub, 0)

\* s.includes(sub)
Includes(s, sub) == IndexOf(s, sub) # -1

(***************************************************************************)
(* Tokens of the bundle language.                                          *)
(***************************************************************************)
GATE_NAME == "codex-extension-slash-commands"

\* The flag as a double-quoted and as a single-quoted string literal.
GateDQ == "\"codex-extension-slash-commands\""
GateSQ == "'codex-extension-slash-commands'"
LitUse == "\"useGateValue\""
LitElectron == "\"electron\""
LitOther == "\"x\""

\* 'window.codexWindowType==="electron"'
ELECTRON_FORCE_EXPR == <<"window", ".", "codexWindowType", "===", LitElectron>>

\* "window.codexWindowType", the substring match() looks for
WindowTypeMarker == <<"window", ".", "codexWindowType">>

IdentTokens == {"o", "flag", "useGateValue", "other", "window", "codexWindowType"}
LiteralTokens == {GateDQ, GateSQ, LitUse, LitElectron, LitOther}

\* The value of a string literal token (its text without the quotes).
LiteralValue(tok) ==
  CASE tok = GateDQ -> GATE_NAME
    [] tok = GateSQ -> GATE_NAME
    [] tok = LitUse -> "useGateValue"
    [] tok = LitElectron -> "electron"
    [] OTHER -> "x"

(***************************************************************************)
(* Syntax tree values.  A field of a node holds a node, an array, a        *)
(* primitive or null; only a node carries a string `type`.                 *)
(***************************************************************************)
NullV == [k |-> "null"]
Prim(v) == [k |-> "prim", v |-> v]
Arr(items) == [k |-> "array", items |-> items]

Fail == [ok |-> FALSE]
Ok(n, p) == [ok |-> TRUE, node |-> n, pos |-> p]

\* The own enumerable keys of a node after type, start and end, in the order
\* the parser assigns them.
ChildKeys(type) ==
  CASE type = "Program" -> <<"body", "sourceType">>
    [] type = "VariableDeclaration" -> <<"declarations", "kind">>
    [] type = "VariableDeclarator" -> <<"id", "init">>
    [] type = "ExpressionStatement" -> <<"expression">>
    [] type = "BlockStatement" -> <<"body">>
    [] type = "Identifier" -> <<"name">>
    [] type = "Literal" -> <<"value", "raw">>
    [] type = "MemberExpression" -> <<"object", "property", "computed", "optional">>
    [] type = "CallExpression" -> <<"callee", "arguments", "optional">>
    [] type = "LogicalExpression" -> <<"left", "operator", "right">>
    [] type = "BinaryExpression" -> <<"left", "operator", "right">>
    [] type = "ArrowFunctionExpression" ->
         <<"id", "expression", "generator", "async", "params", "body">>
    [] OTHER -> <<>>

(***************************************************************************)
(* parse(source, {ecmaVersion: "latest", sourceType: "module"}): recursive *)
(* descent over the token sequence.  Comments are skipped between tokens;  *)
(* a node starts at its first token and ends after its last one; a         *)
(* parenthesized expression yields the inner node (no preserveParens).     *)
(***************************************************************************)
RECURSIVE SkipSpace(_, _)
\* Offset of the next token that is not inside a comment; Len(t) at the end
\* of input; -1 for an unterminated comment.
SkipSpace(t, p) ==
  IF p < Len(t) /\ t[p + 1] = "/*"
  THEN LET c == IndexOfFrom(t, <<"*/">>, p + 1)
       IN IF c = -1 THEN -1 ELSE SkipSpace(t, c + 1)
  ELSE p

\* The next token, "EOF" at the end of input, "ERR" for an unterminated comment.
Peek(t, p) ==
  LET q == SkipSpace(t, p)
  IN IF q = -1 THEN "ERR" ELSE IF q >= Len(t) THEN "EOF" ELSE t[q + 1]

\* Offset just after the next token.
After(t, p) == SkipSpace(t, p) + 1

\* The parser's mutually recursive routines are the cases of one recursive
\* operator: parseRule(routine, t, a) runs the named routine on text t with
\* the arguments a.  A result is Fail (SyntaxError) or Ok(node, pos), pos the
\* offset just after the last token consumed.
RECURSIVE parseRule(_, _, _)
parseRule(rule, t, a) ==
  LET parseIdent(p) == parseRule("parseIdent", t, [p |-> p])
      parseExprAtom(p) == parseRule("parseExprAtom", t, [p |-> p])
      parseExprList(p, acc) == parseRule("parseExprList", t, [p |-> p, acc |-> acc])
      parseSubscripts(base, s, p) ==
        parseRule("parseSubscripts", t, [base |-> base, s |-> s, p |-> p])
      parseExprSubscripts(p) == parseRule("parseExprSubscripts", t, [p |-> p])
      parseExprOp(left, s, p, op) ==
        parseRule("parseExprOp", t, [left |-> left, s |-> s, p |-> p, op |-> op])
      parseExprEquality(p) == parseRule("parseExprEquality", t, [p |-> p])
      parseMaybeAssign(p) == parseRule("parseMaybeAssign", t, [p |-> p])
      parseStatement(p) == parseRule("parseStatement", t, [p |-> p])
      parseBlockBody(p, acc) == parseRule("parseBlockBody", t, [p |-> p, acc |-> acc])
      \* A statement ends at ";" or, by automatic semicolon insertion, before
      \* "}" or the end of input.  The offset after it, -1 when neither.
      semicolon(p) ==
        IF Peek(t, p) = ";" THEN After(t, p)
        ELSE IF Peek(t, p) \in {"}", "EOF"} THEN p
        ELSE -1
  IN CASE rule = "parseIdent" ->
       LET s == SkipSpace(t, a.p)
           tok == Peek(t, a.p)
       IN IF tok \in IdentTokens
          THEN Ok([k |-> "node", type |-> "Identifier", start |-> s, end |-> s + 1,
                   name |-> Prim(tok)], s + 1)
          ELSE Fail

     [] rule = "parseExprAtom" ->
       LET s == SkipSpace(t, a.p)
           tok == Peek(t, a.p)
       IN CASE tok \in IdentTokens -> parseIdent(a.p)
            [] tok \in LiteralTokens ->
                 Ok([k |-> "node", type |-> "Literal", start |-> s, end |-> s + 1,
                     value |-> Prim(LiteralValue(tok)), raw |-> Prim(tok)], s + 1)
            [] tok = "(" ->
                 \* the inner node, its own start and end (no preserveParens)
                 LET e == parseMaybeAssign(s + 1)
                 IN IF e.ok /\ Peek(t, e.pos) = ")"
                    THEN Ok(e.node, After(t, e.pos))
                    ELSE Fail
            [] tok = "()=>" ->
                 IF Peek(t, s + 1) # "{" THEN Fail
                 ELSE LET bs == SkipSpace(t, s + 1)
                          b == parseBlockBody(bs + 1, <<>>)
                      IN IF b.ok /\ Peek(t, b.pos) = "}"
                         THEN LET e == After(t, b.pos)
                                  block == [k |-> "node", type |-> "BlockStatement",
                                            start |-> bs, end |-> e,
                                            body |-> Arr(b.node)]
                              IN Ok([k |-> "node",
                                     type |-> "ArrowFunctionExpression",
                                     start |-> s, end |-> e,
                                     id |-> NullV, expression |-> Prim("false"),
                                     generator |-> Prim("false"),
                                     async |-> Prim("false"),
                                     params |-> Arr(<<>>), body |-> block], e)
                         ELSE Fail
            [] OTHER -> Fail

     \* Comma-separated expressions up to (not including) the closing ")".
     [] rule = "parseExprList" ->
       IF Peek(t, a.p) = ")" THEN Ok(a.acc, a.p)
       ELSE LET e == parseMaybeAssign(a.p)
            IN IF ~e.ok THEN Fail
               ELSE IF Peek(t, e.pos) = ","
                    THEN parseExprList(After(t, e.pos), Append(a.acc, e.node))
                    ELSE IF Peek(t, e.pos) = ")"
                         THEN Ok(Append(a.acc, e.node), e.pos)
                         ELSE Fail

     \* Member accesses and calls after an atom; a.s is the offset the whole
     \* expression started at.
     [] rule = "parseSubscripts" ->
       LET tok == Peek(t, a.p)
       IN CASE tok = "." ->
                 LET prop == parseIdent(After(t, a.p))
                 IN IF ~prop.ok THEN Fail
                    ELSE parseSubscripts(
                           [k |-> "node", type |-> "MemberExpression",
                            start |-> a.s, end |-> prop.pos,
                            object |-> a.base, property |-> prop.node,
                            computed |-> Prim("false"), optional |-> Prim("false")],
                           a.s, prop.pos)
            [] tok = "[" ->
                 LET prop == parseMaybeAssign(After(t, a.p))
                 IN IF prop.ok /\ Peek(t, prop.pos) = "]"
                    THEN parseSubscripts(
                           [k |-> "node", type |-> "MemberExpression",
                            start |-> a.s, end |-> After(t, prop.pos),
                            object |-> a.base, property |-> prop.node,
                            computed |-> Prim("true"), optional |-> Prim("false")],
                           a.s, After(t, prop.pos))
                    ELSE Fail
            [] tok = "(" ->
                 LET args == parseExprList(After(t, a.p), <<>>)
                 IN IF ~args.ok THEN Fail
                    ELSE parseSubscripts(
                           [k |-> "node", type |-> "CallExpression",
                            start |-> a.s, end |-> After(t, args.pos),
                            callee |-> a.base, arguments |-> Arr(args.node),
                            optional |-> Prim("false")],
                           a.s, After(t, args.pos))
            [] OTHER -> Ok(a.base, a.p)

     [] rule = "parseExprSubscripts" ->
       LET atom == parseExprAtom(a.p)
       IN IF ~atom.ok THEN Fail
          ELSE parseSubscripts(atom.node, SkipSpace(t, a.p), atom.pos)

     \* Left-associative chain of one binary operator: === binds tighter
     \* than ||.
     [] rule = "parseExprOp" ->
       IF Peek(t, a.p) # a.op THEN Ok(a.left, a.p)
       ELSE LET r == IF a.op = "==="
                     THEN parseExprSubscripts(After(t, a.p))
                     ELSE parseExprEquality(After(t, a.p))
            IN IF ~r.ok THEN Fail
               ELSE parseExprOp(
                      [k |-> "node",
                       type |-> IF a.op = "||" THEN "LogicalExpression"
                                ELSE "BinaryExpression",
                       start |-> a.s, end |-> r.pos,
                       left |-> a.left, operator |-> Prim(a.op), right |-> r.node],
                      a.s, r.pos, a.op)

     [] rule = "parseExprEquality" ->
       LET l == parseExprSubscripts(a.p)
       IN IF ~l.ok THEN Fail
          ELSE parseExprOp(l.node, SkipSpace(t, a.p), l.pos, "===")

     [] rule = "parseMaybeAssign" ->
       LET l == parseExprEquality(a.p)
       IN IF ~l.ok THEN Fail
          ELSE parseExprOp(l.node, SkipSpace(t, a.p), l.pos, "||")

     [] rule = "parseStatement" ->
       LET s == SkipSpace(t, a.p)
       IN IF Peek(t, a.p) = "const"
          THEN LET id == parseIdent(s + 1)
               IN IF ~id.ok \/ Peek(t, id.pos) # "=" THEN Fail
                  ELSE LET init == parseMaybeAssign(After(t, id.pos))
                       IN IF ~init.ok \/ semicolon(init.pos) = -1 THEN Fail
                          ELSE LET decl == [k |-> "node",
                                            type |-> "VariableDeclarator",
                                            start |-> id.node.start,
                                            end |-> init.pos,
                                            id |-> id.node, init |-> init.node]
                                   e == semicolon(init.pos)
                               IN Ok([k |-> "node", type |-> "VariableDeclaration",
                                      start |-> s, end |-> e,
                                      declarations |-> Arr(<<decl>>),
                                      kind |-> Prim("const")], e)
          ELSE LET x == parseMaybeAssign(a.p)
               IN IF ~x.ok \/ semicolon(x.pos) = -1 THEN Fail
                  ELSE LET e == semicolon(x.pos)
                       IN Ok([k |-> "node", type |-> "ExpressionStatement",
                              start |-> s, end |-> e, expression |-> x.node], e)

     \* Statements up to "}" or the end of input.
     [] rule = "parseBlockBody" ->
       IF Peek(t, a.p) \in {"}", "EOF"} THEN Ok(a.acc, a.p)
       ELSE LET st == parseStatement(a.p)
            IN IF ~st.ok THEN Fail
               ELSE parseBlockBody(st.pos, Append(a.acc, st.node))

     [] OTHER -> Fail

\* The Program node, or Fail for a SyntaxError.
parse(t) ==
  LET b == parseRule("parseBlockBody", t, [p |-> 0, acc |-> <<>>])
  IN IF b.ok /\ Peek(t, b.pos) = "EOF"
     THEN Ok([k |-> "node", type |-> "Program", start |-> 0, end |-> Len(t),
              body |-> Arr(b.node), sourceType |-> Prim("module")], Len(t))
     ELSE Fail

(***************************************************************************)
(* scripts/patch-slash-commands.js: tree walker, rule, collectors.         *)
(***************************************************************************)
\* An object without a string `type`: its own keys are 1..Len(fields).
Obj(fields) == [k |-> "object", fields |-> fields]

\* Object.keys(node): the keys of a parsed node after type, start and end;
\* the indices of an array or of an object without a string `type`.
OwnKeys(node) ==
  IF node.k = "node" THEN ChildKeys(node.type)
  ELSE IF node.k = "array" THEN [i \in 1..Len(node.items) |-> i]
  ELSE [i \in 1..Len(node.fields) |-> i]

\* node[key]
Field(node, key) ==
  IF node.k = "node" THEN node[key]
  ELSE IF node.k = "array" THEN node.items[key]
  ELSE node.fields[key]

RECURSIVE walk(_)
RECURSIVE walkArray(_, _)
RECURSIVE walkKeys(_, _, _)

\* walk(node, visitor): the nodes handed to the visitor, in call order.  The
\* node itself first, then each field in key order: an array element or a
\* field value is walked when it carries a string `type`.
walk(node) ==
  IF node.k \in {"null", "prim"} THEN <<>>
  ELSE <<node>> \o walkKeys(node, OwnKeys(node), 1)

walkKeys(node, keys, i) ==
  IF i > Len(keys) THEN <<>>
  ELSE LET child == Field(node, keys[i])
           here == IF child.k = "array" THEN walkArray(child.items, 1)
                   ELSE IF child.k = "node" THEN walk(child)
                   ELSE <<>>
       IN here \o walkKeys(node, keys, i + 1)

\* walkArray that stops after the first element.
walkArrayFirstOnly(items, i) ==
  IF i > Len(items) \/ i > 1 THEN <<>>
  ELSE (IF items[i].k = "node" THEN walk(items[i]) ELSE <<>>)
         \o walkArray(items, i + 1)

walkArray(items, i) ==
  IF i > Len(items) THEN <<>>
  ELSE (IF items[i].k = "node" THEN walk(items[i]) ELSE <<>>)
         \o walkArray(items, i + 1)

\* The property name of a member expression: the identifier of `a.b`, the
\* literal value of `a["b"]`, otherwise null.
getPropertyName(memberExpr) ==
  IF memberExpr.k # "node" \/ memberExpr.property.k # "node" THEN "null"
  ELSE IF memberExpr.computed.v = "false" /\ memberExpr.property.type = "Identifier"
       THEN memberExpr.property.name.v
  ELSE IF memberExpr.computed.v = "true" /\ memberExpr.property.type = "Literal"
       THEN memberExpr.property.value.v
  ELSE "null"

NoMatch == [ok |-> FALSE]

RULES == <<"enable_slash_commands_in_electron">>

\* match() without the MemberExpression test: a bare useGateValue(...) call
\* is taken for a target as well.
matchAnyCallee(node, source) ==
  IF node.type # "VariableDeclarator" THEN NoMatch
  ELSE LET init == node.init
       IN IF init.k # "node" \/ init.type # "CallExpression" THEN NoMatch
          ELSE LET callee == init.callee
                   args == init.arguments.items
                   calleeName == IF callee.type = "MemberExpression"
                                 THEN getPropertyName(callee)
                                 ELSE IF callee.type = "Identifier"
                                      THEN callee.name.v
                                      ELSE "null"
               IN IF calleeName # "useGateValue" THEN NoMatch
                  ELSE IF Len(args) < 1 THEN NoMatch
                  ELSE IF args[1].type # "Literal" \/ args[1].value.v # GATE_NAME
                       THEN NoMatch
                  ELSE LET original == Slice(source, init.start, init.end)
                       IN IF Includes(original, WindowTypeMarker) THEN NoMatch
                          ELSE [ok |-> TRUE,
                                start |-> init.start,
                                end |-> init.end,
                                replacement |->
                                  <<"(">> \o original \o <<"||">>
                                    \o ELECTRON_FORCE_EXPR \o <<")">>,
                                original |-> original]

\* RULES[0].match(node, source)
match(node, source) ==
  IF node.type # "VariableDeclarator" THEN NoMatch
  ELSE LET init == node.init
       IN IF init.k # "node" \/ init.type # "CallExpression" THEN NoMatch
          ELSE LET callee == init.callee
                   args == init.arguments.items
               IN IF callee.k # "node" \/ callee.type # "MemberExpression"
                  THEN NoMatch
                  ELSE IF getPropertyName(callee) # "useGateValue" THEN NoMatch
                  ELSE IF Len(args) < 1 THEN NoMatch
                  ELSE IF args[1].type # "Literal" \/ args[1].value.v # GATE_NAME
                       THEN NoMatch
                  ELSE LET original == Slice(source, init.start, init.end)
                       IN IF Includes(original, WindowTypeMarker) THEN NoMatch
                          ELSE [ok |-> TRUE,
                                start |-> init.start,
                                end |-> init.end,
                                replacement |->
                                  <<"(">> \o original \o <<"||">>
                                    \o ELECTRON_FORCE_EXPR \o <<")">>,
                                original |-> original]

\* The rule with the given id applied to a node.
RuleMatch(ruleId, node, source) == match(node, source)

RECURSIVE collectVisit(_, _, _, _, _)
\* The visitor of collectPatches over the visited nodes from index i on:
\* every rule on every node, a result kept when its start is new.
collectVisit(nodes, source, i, seen, patches) ==
  IF i > Len(nodes) THEN patches
  ELSE LET result == RuleMatch(RULES[1], nodes[i], source)
       IN IF result.ok /\ result.start \notin seen
          THEN collectVisit(nodes, source, i + 1, seen \cup {result.start},
                 Append(patches,
                   [start |-> result.start, end |-> result.end,
                    replacement |-> result.replacement,
                    original |-> result.original, ruleId |-> RULES[1]]))
          ELSE collectVisit(nodes, source, i + 1, seen, patches)

\* collectPatches(ast, source): { patches, details }
collectPatches(ast, source) ==
  LET ps == collectVisit(walk(ast), source, 1, {}, <<>>)
  IN [patches |-> ps,
      details |-> [i \in 1..Len(ps) |->
                     [ruleId |-> ps[i].ruleId, position |-> ps[i].start,
                      change |-> <<ps[i].original, ps[i].replacement>>]]]

CONTEXT_CHARS == 60

RECURSIVE scanVisit(_, _, _, _, _)
scanVisit(nodes, source, i, seen, matches) ==
  IF i > Len(nodes) THEN matches
  ELSE LET result == RuleMatch(RULES[1], nodes[i], source)
       IN IF result.ok /\ result.start \notin seen
          THEN LET ctxStart == Max(0, result.start - CONTEXT_CHARS)
                   ctxEnd == Min(Len(source), result.end + CONTEXT_CHARS)
               IN scanVisit(nodes, source, i + 1, seen \cup {result.start},
                    Append(matches,
                      [ruleId |-> RULES[1], position |-> result.start,
                       original |-> result.original,
                       context |-> Slice(source, ctxStart, ctxEnd),
                       wouldPatch |-> TRUE]))
          ELSE scanVisit(nodes, source, i + 1, seen, matches)

\* scanMatches() that reports the first match only.
scanMatchesFirstOnly(ast, source) ==
  LET ms == scanVisit(walk(ast), source, 1, {}, <<>>)
  IN IF ms = <<>> THEN ms ELSE <<ms[1]>>

\* scanMatches(ast, source).matches
scanMatches(ast, source) == scanVisit(walk(ast), source, 1, {}, <<>>)

\* countAllOccurrences() with the needle in single quotes.
countSingleQuoted(source) ==
  Cardinality({i \in 0..(Len(source) - 1) : MatchesAt(source, <<GateSQ>>, i)})

\* countAllOccurrences() that skips the occurrences inside comments.
countOutsideComments(source) ==
  Cardinality({i \in 0..(Len(source) - 1) :
                 /\ MatchesAt(source, <<GateDQ>>, i)
                 /\ ~(i > 0 /\ source[i] = "/*")})

\* countAllOccurrences(source): occurrences of the double-quoted flag.
countAllOccurrences(source) ==
  Cardinality({i \in 0..(Len(source) - 1) : MatchesAt(source, <<GateDQ>>, i)})

\* patches.sort((a, b) => b.start - a.start): stable insertion by
\* descending start.
RECURSIVE insertDesc(_, _)
insertDesc(sorted, p) ==
  IF sorted = <<>> THEN <<p>>
  ELSE IF Head(sorted).start >= p.start
       THEN <<Head(sorted)>> \o insertDesc(Tail(sorted), p)
       ELSE <<p>> \o sorted

RECURSIVE sortDesc(_, _, _)
sortDesc(ps, i, acc) ==
  IF i > Len(ps) THEN acc ELSE sortDesc(ps, i + 1, insertDesc(acc, ps[i]))

\* The sort with the comparator reversed: ascending start.
sortByStartAsc(ps) ==
  LET d == sortDesc(ps, 1, <<>>)
  IN [i \in 1..Len(d) |-> d[Len(d) + 1 - i]]

sortByStartDesc(ps) == sortDesc(ps, 1, <<>>)

\* One pass of the splice loop.
splice(code, p) ==
  Slice(code, 0, p.start) \o p.replacement \o SliceFrom(code, p.end)

(***************************************************************************)
(* scripts/patch-performance.js: marker-guarded text injections.  The      *)
(* main-process bundle is a sequence of the snippets the script looks for  *)
(* (needles), the snippets it injects, and other code.                     *)
(***************************************************************************)
PERF_MARKER == "/* codex-perf-patch:v1 */"
WINDOW_MARKER == "codex-perf-window-hooks:v1"
STARTUP_MARKER == "codex-perf-startup-defer:v1"
DIAG_MARKER == "codex-perf-diagnostics:v1"
PROCESS_MARKER == "codex-perf-process-errors:v1"

UseStrict == "\"use strict\";"
PerfMarkFn == "function __codexPerfMark(name,data){...}"
WindowNeedle ==
  <<"devTools:this.options.allowDevtools}});",
    "(a===\"primary\"||a===\"hud\")&&y.on(\"page-title-updated\"">>
WhenReadyStart == "U.app.whenReady().then(async()=>{"
WhenReadyEnd == <<"});", "U.app.on(\"activate\"">>
InstallNeedle == "installWebContentsDiagnostics(e){...a=this.options.errorReporter;"
GoneNeedle == <<"n.on(\"render-process-gone\",(o,s)=>{">>
FinishNeedle ==
  <<"n.on(\"did-finish-load\",()=>{", "this.rendererRecoveryAttempts.delete(i)}),">>
UnresponsiveNeedle == <<"n.on(\"unresponsive\",()=>{">>
FailLoadNeedle == <<"n.on(\"did-fail-load\",(o,s,c,u,l,p,d)=>{">>
ReloadNeedle ==
  <<"setTimeout(()=>{", "if(!e.isDestroyed()&&...)try{e.webContents.reload()}">>

\* contents.includes(marker)
hasMarker(contents, marker) == Includes(contents, <<marker>>)

\* A stage's result; exited: the stage called process.exit(1).
StageOk(changed, contents) ==
  [exited |-> FALSE, changed |-> changed, contents |-> contents]
StageExit == [exited |-> TRUE]

\* String.prototype.replace(needle, replacement): the first occurrence only.
ReplaceFirst(s, needle, replacement) ==
  LET i == IndexOf(s, needle)
  IN IF i = -1 THEN s
     ELSE Slice(s, 0, i) \o replacement \o SliceFrom(s, i + Len(needle))

injectPerfHelpers(mainBundle) ==
  IF hasMarker(mainBundle, PERF_MARKER) THEN StageOk(FALSE, mainBundle)
  ELSE IF IndexOf(mainBundle, <<UseStrict>>) # 0 THEN StageExit
  ELSE StageOk(TRUE,
         <<UseStrict, PERF_MARKER, "const __codexPerfConfig=...;", PerfMarkFn>>
           \o SliceFrom(mainBundle, 1))

injectWindowHooks(mainBundle) ==
  IF hasMarker(mainBundle, WINDOW_MARKER) THEN StageOk(FALSE, mainBundle)
  ELSE LET i == IndexOf(mainBundle, WindowNeedle)
       IN IF i = -1 THEN StageExit
          ELSE StageOk(TRUE,
                 Slice(mainBundle, 0, i)
                   \o <<WindowNeedle[1], WINDOW_MARKER, "window.created",
                        "window.ready_to_show", "window.show",
                        "webcontents.dom_ready", "webcontents.did_finish_load",
                        WindowNeedle[2]>>
                   \o SliceFrom(mainBundle, i + Len(WindowNeedle)))

\* whenReadyBlockEnd = afterWhenReadyIdx + 3 keeps the `});` of the end
\* needle inside the replaced block: one token here.
injectWhenReadyOptimization(mainBundle) ==
  IF hasMarker(mainBundle, STARTUP_MARKER) THEN StageOk(FALSE, mainBundle)
  ELSE LET whenReadyStartIdx == IndexOf(mainBundle, <<WhenReadyStart>>)
       IN IF whenReadyStartIdx = -1 THEN StageExit
          ELSE LET afterWhenReadyIdx ==
                     IndexOfFrom(mainBundle, WhenReadyEnd, whenReadyStartIdx)
               IN IF afterWhenReadyIdx = -1 THEN StageExit
                  ELSE StageOk(TRUE,
                         Slice(mainBundle, 0, whenReadyStartIdx)
                           \o <<WhenReadyStart, STARTUP_MARKER,
                                "deferred startup body", "});">>
                           \o SliceFrom(mainBundle, afterWhenReadyIdx + 1))

requiredSignals ==
  <<DIAG_MARKER,
    "webcontents.render_process_gone",
    "webcontents.did_finish_load",
    "webcontents.unresponsive",
    "webcontents.did_fail_load",
    "webcontents.crash_recover.reload">>

injectDiagnosticsMarks(mainBundle) ==
  IF hasMarker(mainBundle, DIAG_MARKER) THEN StageOk(FALSE, mainBundle)
  ELSE IF ~Includes(mainBundle, <<InstallNeedle>>) THEN StageExit
  ELSE LET out0 == ReplaceFirst(mainBundle, <<InstallNeedle>>,
                     <<InstallNeedle, DIAG_MARKER, "webcontents.diagnostics.install">>)
           out1 == ReplaceFirst(out0, GoneNeedle,
                     GoneNeedle \o <<"webcontents.render_process_gone">>)
           out2 == ReplaceFirst(out1, FinishNeedle,
                     <<FinishNeedle[1], "webcontents.did_finish_load",
                       FinishNeedle[2]>>)
           out3 == ReplaceFirst(out2, UnresponsiveNeedle,
                     UnresponsiveNeedle \o <<"webcontents.unresponsive">>)
           out4 == ReplaceFirst(out3, FailLoadNeedle,
                     FailLoadNeedle \o <<"webcontents.did_fail_load">>)
           out == ReplaceFirst(out4, ReloadNeedle,
                     <<ReloadNeedle[1], "webcontents.crash_recover.reload",
                       ReloadNeedle[2]>>)
       IN IF \E i \in 1..Len(requiredSignals) : ~Includes(out, <<requiredSignals[i]>>)
          THEN StageExit
          ELSE StageOk(TRUE, out)

injectProcessErrorMarks(mainBundle) ==
  IF hasMarker(mainBundle, PROCESS_MARKER) THEN StageOk(FALSE, mainBundle)
  ELSE LET i == IndexOf(mainBundle, <<PerfMarkFn>>)
       IN IF i = -1 THEN StageExit
          ELSE StageOk(TRUE,
                 Slice(mainBundle, 0, i)
                   \o <<PerfMarkFn, PROCESS_MARKER, "process.on(...) handlers">>
                   \o SliceFrom(mainBundle, i + 1))

\* The five stages in the order main() runs them.
Stage(n, contents) ==
  CASE n = 1 -> injectPerfHelpers(contents)
    [] n = 2 -> injectWindowHooks(contents)
    [] n = 3 -> injectWhenReadyOptimization(contents)
    [] n = 4 -> injectDiagnosticsMarks(contents)
    [] OTHER -> injectProcessErrorMarks(contents)

(***************************************************************************)
(* Input bundles of the slash-commands script: up to MaxStmts statements   *)
(* drawn from the statement shapes below.                                  *)
(***************************************************************************)
MemberCallee == <<"o", ".", "useGateValue">>
ComputedCallee == <<"o", "[", LitUse, "]">>
BareCallee == <<"useGateValue">>
OtherCallee == <<"o", ".", "other">>

Call(callee, args) == callee \o <<"(">> \o args \o <<")">>
Decl(init) == <<"const", "flag", "=">> \o init \o <<";">>
ArrowFn(body) == <<"()=>", "{">> \o body \o <<"}">>

TargetDecl == Decl(Call(MemberCallee, <<GateDQ>>))
BareDecl == Decl(Call(BareCallee, <<GateDQ>>))
NestedDecl == Decl(Call(MemberCallee, <<GateDQ, ",">> \o ArrowFn(TargetDecl)))
CommentOnly == <<"/*", GateDQ, "*/">>

StmtShapes ==
  { TargetDecl,
    BareDecl,
    NestedDecl,
    CommentOnly,
    Decl(Call(ComputedCallee, <<GateDQ>>)),
    Decl(Call(MemberCallee, <<GateSQ>>)),
    Decl(Call(OtherCallee, <<GateDQ>>)),
    Decl(Call(MemberCallee, <<LitOther>>)),
    Decl(Call(MemberCallee, <<>>)),
    Decl(Call(MemberCallee, <<GateDQ, ",">> \o WindowTypeMarker)),
    Decl(Call(OtherCallee, ArrowFn(Decl(Call(MemberCallee, <<GateSQ>>))))),
    Call(MemberCallee, <<GateDQ>>) \o <<";">>,
    ELECTRON_FORCE_EXPR \o <<";">>,
    <<")">>
  }

RECURSIVE BundlesUpTo(_)
BundlesUpTo(n) ==
  IF n = 0 THEN {<<>>}
  ELSE LET shorter == BundlesUpTo(n - 1)
       IN shorter \cup {b \o st : b \in shorter, st \in StmtShapes}

Bundles == BundlesUpTo(MaxStmts)

\* File names of src/webview/assets, each a sequence of name parts.
AssetNames ==
  { <<"index-", "a1b2", ".js">>, <<"index-", "c3d4", ".js">>,
    <<"index-", "a1b2", ".js", ".map">> }

\* /^index-.*\.js$/.test(f)
IsIndexBundle(f) == Len(f) >= 2 /\ f[1] = "index-" /\ f[Len(f)] = ".js"

\* The assets directory: absent, or the set of the file names in it.
AssetStates ==
  {[exists |-> FALSE, files |-> {}]}
    \cup {[exists |-> TRUE, files |-> fs] : fs \in SUBSET AssetNames}

\* locateBundle that takes the first index-*.js when there are several.
locateBundleFirstOfMany(assets) ==
  LET files == {f \in assets.files : IsIndexBundle(f)}
  IN IF ~assets.exists \/ Cardinality(files) = 0
     THEN [exited |-> TRUE, path |-> <<>>]
     ELSE [exited |-> FALSE, path |-> CHOOSE f \in files : TRUE]

\* locateBundle(): the path of the only index-*.js of the assets directory,
\* process.exit(1) when the directory is absent or holds none or several.
locateBundle(assets) ==
  LET files == {f \in assets.files : IsIndexBundle(f)}
  IN IF ~assets.exists \/ Cardinality(files) # 1
     THEN [exited |-> TRUE, path |-> <<>>]
     ELSE [exited |-> FALSE, path |-> CHOOSE f \in files : TRUE]

(***************************************************************************)
(* Input bundles of the performance script: the main-process bundle the    *)
(* script was written for, with up to MaxMissing of its snippets absent.   *)
(***************************************************************************)
PristineParts ==
  << <<UseStrict>>,
     <<WindowNeedle[1]>>, <<WindowNeedle[2]>>,
     <<InstallNeedle>>,
     GoneNeedle,
     FinishNeedle,
     UnresponsiveNeedle,
     FailLoadNeedle,
     ReloadNeedle,
     <<WhenReadyStart>>, <<"await SS.initialize(),...">>,
     <<WhenReadyEnd[1]>>, <<WhenReadyEnd[2]>> >>

RECURSIVE JoinParts(_, _, _)
JoinParts(parts, missing, i) ==
  IF i > Len(parts) THEN <<>>
  ELSE (IF i \in missing THEN <<>> ELSE parts[i]) \o JoinParts(parts, missing, i + 1)

\* The snippets in the orders a bundle can hold them: the window code and
\* the diagnostics code before the whenReady callback, or one of the two
\* inside it.
Layouts ==
  LET head == SubSeq(PristineParts, 1, 1)
      window == SubSeq(PristineParts, 2, 3)
      diagnostics == SubSeq(PristineParts, 4, 9)
      start == SubSeq(PristineParts, 10, 10)
      rest == SubSeq(PristineParts, 11, 13)
  IN { PristineParts,
       head \o diagnostics \o start \o window \o rest,
       head \o window \o start \o diagnostics \o rest }

MainBundles ==
  { JoinParts(parts, missing, 1) :
      parts \in Layouts,
      missing \in {m \in SUBSET (1..Len(PristineParts)) : Cardinality(m) <= MaxMissing} }

\* Texts of src/.vite/build/main.js, as token sequences.
RequireOpen == "require("
RequireClose == ")"
MainRefDQ == "\"./main-a1b2.js\""
MainRefSQ == "'./main-c3d4.js'"
EmptyHashRef == "\"./main-.js\""
PreloadRef == "\"./preload.js\""

EntryTexts ==
  { <<>>,
    <<RequireOpen, PreloadRef, RequireClose>>,
    <<RequireOpen, EmptyHashRef, RequireClose>>,
    <<RequireOpen, MainRefDQ, RequireClose>>,
    <<RequireOpen, PreloadRef, RequireClose, RequireOpen, MainRefSQ,
      RequireClose>> }

\* File names of src/.vite/build besides main.js.
BuildNames == {"main-a1b2.js", "main-c3d4.js"}

\* The capture group of /require\(\s*["']\.\/(main-[^"']+\.js)["']\s*\)/ on
\* a quoted module reference; "" when the reference does not match.
MainBasename(tok) ==
  CASE tok = MainRefDQ -> "main-a1b2.js"
    [] tok = MainRefSQ -> "main-c3d4.js"
    [] OTHER -> ""

\* entry.match(...): the 1-based token index of the first match, 0 for none.
RECURSIVE MatchRequire(_, _)
MatchRequire(entry, p) ==
  IF p + 2 > Len(entry) THEN 0
  ELSE IF /\ entry[p] = RequireOpen
          /\ MainBasename(entry[p + 1]) # ""
          /\ entry[p + 2] = RequireClose
       THEN p
       ELSE MatchRequire(entry, p + 1)

\* The build directory: whether main.js exists, its text, the other files.
EntryStates ==
  {[exists |-> FALSE, entry |-> <<>>, files |-> {}]}
    \cup {[exists |-> TRUE, entry |-> e, files |-> fs] :
            e \in EntryTexts, fs \in SUBSET BuildNames}

\* locateMainBundle(): the bundle main.js requires; process.exit(1) when
\* main.js is absent, holds no require("./main-<hash>.js"), or the required
\* file is absent.
locateMainBundle(build) ==
  LET m == MatchRequire(build.entry, 1)
      bundleBasename == MainBasename(build.entry[m + 1])
  IN IF ~build.exists THEN [exited |-> TRUE, path |-> ""]
     ELSE IF m = 0 THEN [exited |-> TRUE, path |-> ""]
     ELSE IF bundleBasename \notin build.files
          THEN [exited |-> TRUE, path |-> ""]
          ELSE [exited |-> FALSE, path |-> bundleBasename]

(***************************************************************************)
(* scripts/patch-node-pty-spectre.js.  A .gyp text is a sequence of        *)
(* tokens; LF and CRLF are the line terminators.                           *)
(***************************************************************************)
AttrToken == "'msvs_configuration_attributes': {"
SpectreToken == "'SpectreMitigation': 'Spectre'"
MitigationOffToken == "'SpectreMitigation': 'false'"
CloseToken == "},"
OtherToken == "'target_name': 'pty',"
LF == "\n"
CRLF == "\r\n"

\* source.split(/\r?\n/)
RECURSIVE splitLines(_, _, _)
splitLines(text, i, cur) ==
  IF i > Len(text) THEN <<cur>>
  ELSE IF text[i] \in {LF, CRLF}
       THEN <<cur>> \o splitLines(text, i + 1, <<>>)
       ELSE splitLines(text, i + 1, Append(cur, text[i]))

\* lines.join(eol)
RECURSIVE joinLines(_, _)
joinLines(lines, eol) ==
  IF Len(lines) = 0 THEN <<>>
  ELSE IF Len(lines) = 1 THEN lines[1]
  ELSE lines[1] \o <<eol>> \o joinLines(Tail(lines), eol)

\* line.includes("'msvs_configuration_attributes'")
IsAttrLine(line) == \E p \in 1..Len(line) : line[p] = AttrToken

\* /^\s*},\s*$/.test(line)
IsCloseLine(line) == line = <<CloseToken>>

\* source.includes("SpectreMitigation") && source.includes("'Spectre'")
hasSpectre(source) ==
  /\ \E p \in 1..Len(source) : source[p] \in {SpectreToken, MitigationOffToken}
  /\ \E p \in 1..Len(source) : source[p] = SpectreToken

\* The loop of removeSpectreBlock over lines[i..].
RECURSIVE removeLoop(_, _, _, _, _)
removeLoop(lines, i, out, isSkipping, removed) ==
  IF i > Len(lines) THEN [changed |-> removed, code |-> joinLines(out, LF)]
  ELSE IF ~isSkipping /\ IsAttrLine(lines[i])
       THEN removeLoop(lines, i + 1, out, TRUE, TRUE)
  ELSE IF isSkipping
       THEN removeLoop(lines, i + 1, out, ~IsCloseLine(lines[i]), removed)
  ELSE removeLoop(lines, i + 1, Append(out, lines[i]), isSkipping, removed)

removeSpectreBlock(source) ==
  removeLoop(splitLines(source, 1, <<>>), 1, <<>>, FALSE, FALSE)

(***************************************************************************)
(* Input .gyp files: up to n lines of the shapes the script tells apart,   *)
(* terminated by LF or by CRLF.                                            *)
(***************************************************************************)
LineShapes ==
  { <<AttrToken>>, <<SpectreToken>>, <<MitigationOffToken>>, <<CloseToken>>,
    <<OtherToken>>, <<AttrToken, SpectreToken, CloseToken>> }

GypTexts(n) ==
  { joinLines(ls, eol) :
      ls \in UNION {[1..k -> LineShapes] : k \in 0..n}, eol \in {LF, CRLF} }

\* What the one-file script finds: another platform than win32, no
\* binding.gyp, or the file.
GypStates == {"notwin", "nofile", "ok"}

\* What the two-file script finds: another platform than win32, or which of
\* binding.gyp and winpty.gyp exist.
TargetStates == {"notwin", "none", "first", "second", "both"}

\* fs.existsSync(targets[i].path)
TargetExists(state, i) ==
  \/ i = 1 /\ state \in {"first", "both"}
  \/ i = 2 /\ state \in {"second", "both"}

(***************************************************************************)
(* State.                                                                  *)
(***************************************************************************)
VARIABLES
  script,    \* the script run on this disk: "slash", "perf", "pty" (one
             \* file) or "pty2" (two files)
  located,   \* what the script's locator finds on disk
  file,      \* the file on disk ("pty2": the pair of files)
  startFile, \* the bundle on disk when the running process started
  runs,      \* process invocations so far
  pc,        \* position of the running process in main(), "idle" between runs
  isCheck,   \* process.argv.includes("--check")
  source,    \* main: source (slash) / original (perf)
  ast,       \* main: ast
  patches,   \* main: patches
  details,   \* main: details
  code,      \* main: code (slash) / contents (perf)
  idx,       \* main: index of the next patch in the splice loop / next stage
  changed,   \* main (perf): changed
  writes,    \* writeFileSync calls of the running process
  foundAny,  \* main (pty2): foundAny
  patchedAny, \* main (pty2): patchedAny
  hist,      \* one record per finished process
  walkIn,    \* walk: the root handed to a call of walk on its own
  walkOut,   \* walk: the nodes that call handed to its visitor, in order
  startup,   \* the injected whenReady callback of a patched main bundle
  perfLog    \* the injected __codexPerfConfig of a patched main bundle

scriptVars == <<script, located, file, startFile, runs, pc, isCheck, source,
                ast, patches, details, code, idx, changed, writes, foundAny,
                patchedAny, hist>>

\* State of the functions and of the injected code that are specified on
\* their own; no script touches it.
apart == <<walkIn, walkOut, startup, perfLog>>

vars == <<scriptVars, apart>>

\* No call of walk on its own.
WalkIdle ==
  /\ walkIn = NullV
  /\ walkOut = [done |-> FALSE]

\* No patched bundle is running.
StartupIdle == startup = [pc |-> "off"]
LoggerIdle == perfLog = [pc |-> "off"]

ApartInit == WalkIdle /\ StartupIdle /\ LoggerIdle

env == <<script, located, startFile>>
locals == <<source, ast, patches, details, code, idx, changed, writes>>
gypLocals == <<foundAny, patchedAny>>

NoAst == [ok |-> FALSE]

\* <<start, ruleId>> of each applied patch / reported match, in order.
DetailPairs(ds) == [i \in 1..Len(ds) |-> <<ds[i].position, ds[i].ruleId>>]
MatchPairs(ms) == [i \in 1..Len(ms) |-> <<ms[i].position, ms[i].ruleId>>]

\* The record of a finished process: how it ended, whether the collector
\* ran and what it found, and the bundle before and after.
RunRecord(exit, report, collected, pairs, after, nwrites) ==
  [check |-> isCheck, exit |-> exit, report |-> report,
   collected |-> collected, pairs |-> pairs,
   before |-> startFile, after |-> after, writes |-> nwrites]

\* The process ends (return from main, process.exit, or an uncaught error):
\* its locals are gone, its record is kept.
ProcessEnds(rec) ==
  /\ pc' = "idle"
  /\ runs' = runs + 1
  /\ hist' = Append(hist, rec)
  /\ source' = <<>>
  /\ ast' = NoAst
  /\ patches' = <<>>
  /\ details' = <<>>
  /\ code' = <<>>
  /\ idx' = 0
  /\ changed' = FALSE
  /\ writes' = 0

(***************************************************************************)
(* main() of scripts/patch-slash-commands.js, one action per step.         *)
(***************************************************************************)
Init ==
  /\ \/ script = "slash" /\ located \in AssetStates /\ file \in Bundles
     \/ script = "perf" /\ located \in EntryStates /\ file \in MainBundles
     \/ /\ script = "pty"
        /\ located \in GypStates
        /\ file \in IF located = "nofile" THEN {<<>>} ELSE GypTexts(MaxLines)
     \/ /\ script = "pty2"
        /\ located \in TargetStates
        /\ file \in
             { <<a, b>> :
                 a \in IF TargetExists(located, 1)
                       THEN GypTexts(MaxTargetLines) ELSE {<<>>},
                 b \in IF TargetExists(located, 2)
                       THEN GypTexts(MaxTargetLines) ELSE {<<>>} }
  /\ startFile = file
  /\ runs = 0
  /\ pc = "idle"
  /\ isCheck = FALSE
  /\ source = <<>>
  /\ ast = NoAst
  /\ patches = <<>>
  /\ details = <<>>
  /\ code = <<>>
  /\ idx = 0
  /\ changed = FALSE
  /\ writes = 0
  /\ foundAny = FALSE
  /\ patchedAny = FALSE
  /\ hist = <<>>
  /\ ApartInit

\* node scripts/patch-slash-commands.js [--check]
\* node scripts/patch-performance.js [--check]
\* node scripts/patch-node-pty-spectre.js [--check]
Invoke(check) ==
  /\ pc = "idle"
  /\ runs < MaxRuns
  /\ pc' = "locate"
  /\ isCheck' = check
  /\ startFile' = file
  /\ UNCHANGED <<script, located, file, runs, locals, gypLocals, hist, apart>>

\* locateBundle(): exactly one index-*.js, else process.exit(1).
LocateBundle ==
  /\ script = "slash"
  /\ pc = "locate"
  /\ IF ~locateBundle(located).exited
     THEN /\ pc' = "read"
          /\ UNCHANGED <<runs, locals, hist>>
     ELSE ProcessEnds(RunRecord(1, "locator", FALSE, <<>>, file, writes))
  /\ UNCHANGED <<env, apart, gypLocals, file, isCheck>>

\* const source = fs.readFileSync(bundlePath, "utf-8")
ReadSource ==
  /\ script = "slash"
  /\ pc = "read"
  /\ source' = file
  /\ pc' = "parse"
  /\ UNCHANGED <<env, apart, gypLocals, file, runs, isCheck, ast, patches, details, code, idx,
                 changed, writes, hist>>

\* ParseSource that goes on to collect and patch whatever isCheck says.
ParseSourceIgnoringCheck ==
  /\ pc = "parse"
  /\ LET r == parse(source)
     IN IF r.ok
        THEN /\ ast' = r
             /\ pc' = "collect"
             /\ UNCHANGED <<runs, source, patches, details, code, idx, changed,
                            writes, hist>>
        ELSE ProcessEnds(RunRecord(1, "syntax", FALSE, <<>>, file, writes))
  /\ UNCHANGED <<env, apart, gypLocals, file, isCheck>>

\* const ast = parse(source, ...): a SyntaxError is not caught and ends the
\* process with status 1.
ParseSource ==
  /\ pc = "parse"
  /\ LET r == parse(source)
     IN IF r.ok
        THEN /\ ast' = r
             /\ pc' = IF isCheck THEN "check" ELSE "collect"
             /\ UNCHANGED <<runs, source, patches, details, code, idx, changed,
                            writes, hist>>
        ELSE ProcessEnds(RunRecord(1, "syntax", FALSE, <<>>, file, writes))
  /\ UNCHANGED <<env, apart, gypLocals, file, isCheck>>

\* if (isCheck) { ... return; }
CheckBranch ==
  /\ pc = "check"
  /\ LET matches == scanMatches(ast.node, source)
         totalRefs == countAllOccurrences(source)
         report == IF Len(matches) = 0
                   THEN IF totalRefs = 0 THEN "no_gate"
                        ELSE IF Includes(source, ELECTRON_FORCE_EXPR)
                             THEN "already_enabled"
                             ELSE "nothing_to_patch"
                   ELSE "would_patch"
     IN ProcessEnds(RunRecord(0, report, TRUE, MatchPairs(matches), file, writes))
  /\ UNCHANGED <<env, apart, gypLocals, file, isCheck>>

\* const { patches, details } = collectPatches(ast, source)
CollectPatches ==
  /\ pc = "collect"
  /\ LET r == collectPatches(ast.node, source)
     IN /\ patches' = r.patches
        /\ details' = r.details
  /\ pc' = "collected"
  /\ UNCHANGED <<env, apart, gypLocals, file, runs, isCheck, source, ast, code, idx, changed,
                 writes, hist>>

\* ZeroPatchBranch that writes the unchanged source back before returning.
ZeroPatchBranchRewrites ==
  /\ pc = "collected"
  /\ Len(patches) = 0
  /\ file' = source
  /\ LET totalRefs == countAllOccurrences(source)
     IN IF totalRefs = 0 \/ Includes(source, ELECTRON_FORCE_EXPR)
        THEN ProcessEnds(RunRecord(0, "no_gate", TRUE, DetailPairs(details),
                                   source, writes + 1))
        ELSE ProcessEnds(RunRecord(1, "drift", TRUE, DetailPairs(details),
                                   source, writes + 1))
  /\ UNCHANGED <<env, apart, gypLocals, isCheck>>

\* if (patches.length === 0) { ... }
ZeroPatchBranch ==
  /\ pc = "collected"
  /\ Len(patches) = 0
  /\ LET totalRefs == countAllOccurrences(source)
     IN IF totalRefs = 0
        THEN ProcessEnds(RunRecord(0, "no_gate", TRUE, DetailPairs(details),
                                   file, writes))
        ELSE IF Includes(source, ELECTRON_FORCE_EXPR)
             THEN ProcessEnds(RunRecord(0, "already_enabled", TRUE,
                                        DetailPairs(details), file, writes))
             ELSE ProcessEnds(RunRecord(1, "drift", TRUE, DetailPairs(details),
                                        file, writes))
  /\ UNCHANGED <<env, apart, gypLocals, file, isCheck>>

\* patches.sort((a, b) => b.start - a.start); let code = source;
SortPatches ==
  /\ pc = "collected"
  /\ Len(patches) > 0
  /\ patches' = sortByStartDesc(patches)
  /\ code' = source
  /\ idx' = 1
  /\ pc' = "splice"
  /\ UNCHANGED <<env, apart, gypLocals, file, runs, isCheck, source, ast, details, changed,
                 writes, hist>>

\* for (const p of patches) code = code.slice(0, p.start) + ...
SpliceStep ==
  /\ pc = "splice"
  /\ idx <= Len(patches)
  /\ code' = splice(code, patches[idx])
  /\ idx' = idx + 1
  /\ UNCHANGED <<env, apart, gypLocals, file, runs, pc, isCheck, source, ast, patches, details,
                 changed, writes, hist>>

\* fs.writeFileSync(bundlePath, code), the report of details, the end of main.
WriteFile ==
  /\ pc = "splice"
  /\ idx > Len(patches)
  /\ file' = code
  /\ ProcessEnds(RunRecord(0, "patched", TRUE, DetailPairs(details), code,
                           writes + 1))
  /\ UNCHANGED <<env, apart, gypLocals, isCheck>>

(***************************************************************************)
(* main() of scripts/patch-performance.js.                                 *)
(***************************************************************************)
\* locateMainBundle(): main.js, its require("./main-<hash>.js"), the file.
LocateMainBundle ==
  /\ script = "perf"
  /\ pc = "locate"
  /\ IF ~locateMainBundle(located).exited
     THEN /\ pc' = "read"
          /\ UNCHANGED <<runs, locals, hist>>
     ELSE ProcessEnds(RunRecord(1, "locator", FALSE, <<>>, file, writes))
  /\ UNCHANGED <<env, apart, gypLocals, file, isCheck>>

\* const original = readFileUtf8(bundleFile); the status of the five markers;
\* in check mode the report, and return.
ReadMainBundle ==
  /\ script = "perf"
  /\ pc = "read"
  /\ IF isCheck
     THEN ProcessEnds(RunRecord(0, "status", FALSE, <<>>, file, writes))
     ELSE /\ source' = file
          /\ code' = file
          /\ changed' = FALSE
          /\ idx' = 1
          /\ pc' = "stage"
          /\ UNCHANGED <<runs, ast, patches, details, writes, hist>>
  /\ UNCHANGED <<env, apart, gypLocals, file, isCheck>>

\* RunStage that writes the bundle after every stage that returns.
RunStageWritesAsItGoes ==
  /\ pc = "stage"
  /\ idx <= 5
  /\ LET r == Stage(idx, code)
     IN IF r.exited
        THEN /\ ProcessEnds(RunRecord(1, "needle", FALSE, <<idx>>, file, writes))
             /\ UNCHANGED file
        ELSE /\ changed' = (changed \/ r.changed)
             /\ code' = r.contents
             /\ file' = r.contents
             /\ idx' = idx + 1
             /\ UNCHANGED <<runs, pc, source, ast, patches, details, writes, hist>>
  /\ UNCHANGED <<env, apart, gypLocals, isCheck>>

\* One stage of main: const r = inject...(contents); changed = changed ||
\* r.changed; contents = r.contents.  A stage that misses its needle calls
\* process.exit(1).
RunStage ==
  /\ pc = "stage"
  /\ idx <= 5
  /\ LET r == Stage(idx, code)
     IN IF r.exited
        THEN ProcessEnds(RunRecord(1, "needle", FALSE, <<idx>>, file, writes))
        ELSE /\ changed' = (changed \/ r.changed)
             /\ code' = r.contents
             /\ idx' = idx + 1
             /\ UNCHANGED <<runs, pc, source, ast, patches, details, writes, hist>>
  /\ UNCHANGED <<env, apart, gypLocals, file, isCheck>>

\* if (!changed) return;
NothingChanged ==
  /\ pc = "stage"
  /\ idx > 5
  /\ ~changed
  /\ ProcessEnds(RunRecord(0, "already_patched", FALSE, <<>>, file, writes))
  /\ UNCHANGED <<env, apart, gypLocals, file, isCheck>>

\* writeFileUtf8(bundleFile, contents)
WriteMainBundle ==
  /\ pc = "stage"
  /\ idx > 5
  /\ changed
  /\ file' = code
  /\ ProcessEnds(RunRecord(0, "patched", FALSE, <<>>, code, writes + 1))
  /\ UNCHANGED <<env, apart, gypLocals, isCheck>>

(***************************************************************************)
(* main() of scripts/patch-node-pty-spectre.js, one-file version.          *)
(***************************************************************************)
\* process.platform !== "win32": return; no binding.gyp: return.
FindBindingGyp ==
  /\ script = "pty"
  /\ pc = "locate"
  /\ IF located = "ok"
     THEN /\ pc' = "read"
          /\ UNCHANGED <<runs, locals, hist>>
     ELSE ProcessEnds(RunRecord(0, "skipped", FALSE, <<>>, file, writes))
  /\ UNCHANGED <<env, apart, gypLocals, file, isCheck>>

\* const source = fs.readFileSync(bindingGypPath); in check mode the report,
\* and return.
ReadBindingGyp ==
  /\ script = "pty"
  /\ pc = "read"
  /\ IF isCheck
     THEN ProcessEnds(RunRecord(0, "status", FALSE, <<>>, file, writes))
     ELSE /\ source' = file
          /\ pc' = "remove"
          /\ UNCHANGED <<runs, ast, patches, details, code, idx, changed,
                         writes, hist>>
  /\ UNCHANGED <<env, apart, gypLocals, file, isCheck>>

\* if (!hasSpectre) return; removeSpectreBlock; if (!changed) process.exit(1);
\* fs.writeFileSync(bindingGypPath, code).
RemoveSpectre ==
  /\ script = "pty"
  /\ pc = "remove"
  /\ LET r == removeSpectreBlock(source)
     IN IF ~hasSpectre(source)
        THEN /\ ProcessEnds(RunRecord(0, "already_patched", FALSE, <<>>, file,
                                      writes))
             /\ UNCHANGED file
        ELSE IF ~r.changed
        THEN /\ ProcessEnds(RunRecord(1, "drift", FALSE, <<>>, file, writes))
             /\ UNCHANGED file
        ELSE /\ file' = r.code
             /\ ProcessEnds(RunRecord(0, "patched", FALSE, <<>>, r.code,
                                      writes + 1))
  /\ UNCHANGED <<env, apart, gypLocals, isCheck>>

(***************************************************************************)
(* main() of scripts/patch-node-pty-spectre.js, two-file version.          *)
(***************************************************************************)
\* process.platform !== "win32": return; let foundAny = false; let
\* patchedAny = false.
StartTargets ==
  /\ script = "pty2"
  /\ pc = "locate"
  /\ IF located = "notwin"
     THEN /\ ProcessEnds(RunRecord(0, "skipped", FALSE, <<>>, file, writes))
          /\ UNCHANGED gypLocals
     ELSE /\ pc' = "target"
          /\ idx' = 1
          /\ foundAny' = FALSE
          /\ patchedAny' = FALSE
          /\ UNCHANGED <<runs, source, ast, patches, details, code, changed,
                         writes, hist>>
  /\ UNCHANGED <<env, apart, file, isCheck>>

\* One iteration of for (const target of targets).
PatchTarget ==
  /\ script = "pty2"
  /\ pc = "target"
  /\ idx <= 2
  /\ LET hs == hasSpectre(file[idx])
         r == removeSpectreBlock(file[idx])
         continue == /\ idx' = idx + 1
                     /\ UNCHANGED <<runs, pc, source, ast, patches, details,
                                    code, changed, writes, hist, file>>
     IN IF ~TargetExists(located, idx)
        THEN continue /\ UNCHANGED gypLocals
        ELSE IF isCheck \/ ~hs
        THEN /\ continue
             /\ foundAny' = (foundAny \/ hs)
             /\ UNCHANGED patchedAny
        ELSE IF ~r.changed
        THEN /\ ProcessEnds(RunRecord(1, "drift", FALSE, <<idx>>, file, writes))
             /\ foundAny' = FALSE
             /\ patchedAny' = FALSE
             /\ UNCHANGED file
        ELSE /\ file' = [file EXCEPT ![idx] = r.code]
             /\ writes' = writes + 1
             /\ foundAny' = TRUE
             /\ patchedAny' = TRUE
             /\ idx' = idx + 1
             /\ UNCHANGED <<runs, pc, source, ast, patches, details, code,
                            changed, hist>>
  /\ UNCHANGED <<env, apart, isCheck>>

\* if (isCheck) return; the closing message.
FinishTargets ==
  /\ script = "pty2"
  /\ pc = "target"
  /\ idx > 2
  /\ ProcessEnds(RunRecord(0,
                           IF isCheck THEN "status"
                           ELSE IF ~foundAny THEN "nothing_found"
                           ELSE IF ~patchedAny THEN "already_removed"
                           ELSE "patched",
                           FALSE, <<>>, file, writes))
  /\ foundAny' = FALSE
  /\ patchedAny' = FALSE
  /\ UNCHANGED <<env, apart, file, isCheck>>

Next ==
  \/ \E check \in BOOLEAN : Invoke(check)
  \/ LocateBundle
  \/ ReadSource
  \/ ParseSource
  \/ CheckBranch
  \/ CollectPatches
  \/ ZeroPatchBranch
  \/ SortPatches
  \/ SpliceStep
  \/ WriteFile
  \/ LocateMainBundle
  \/ ReadMainBundle
  \/ RunStage
  \/ NothingChanged
  \/ WriteMainBundle
  \/ FindBindingGyp
  \/ ReadBindingGyp
  \/ RemoveSpectre
  \/ StartTargets
  \/ PatchTarget
  \/ FinishTargets

Spec == Init /\ [][Next]_vars

(***************************************************************************)
(* Properties.  The definitions below describe the expected behaviour      *)
(* independently of the operators that model the scripts.                  *)
(***************************************************************************)
\* Records of the finished slash-commands processes.
SlashRuns == IF script = "slash" THEN 1..Len(hist) ELSE {}

\* A declarator `x = obj.useGateValue("codex-extension-slash-commands", ...)`
\* (obj.useGateValue or obj["useGateValue"]).
IsGateDeclarator(n) ==
  /\ n.type = "VariableDeclarator"
  /\ n.init.k = "node"
  /\ n.init.type = "CallExpression"
  /\ n.init.callee.type = "MemberExpression"
  /\ \/ /\ n.init.callee.computed.v = "false"
        /\ n.init.callee.property.type = "Identifier"
        /\ n.init.callee.property.name.v = "useGateValue"
     \/ /\ n.init.callee.computed.v = "true"
        /\ n.init.callee.property.type = "Literal"
        /\ n.init.callee.property.value.v = "useGateValue"
  /\ Len(n.init.arguments.items) >= 1
  /\ n.init.arguments.items[1].type = "Literal"
  /\ n.init.arguments.items[1].value.v = GATE_NAME

\* The nodes of the tree of a parseable text.
NodesOf(text) == LET ns == walk(parse(text).node) IN {ns[i] : i \in 1..Len(ns)}

GateDeclarators(text) == {n \in NodesOf(text) : IsGateDeclarator(n)}

\* All ranges of a text replaced at once: the text between the ranges is
\* kept, each range gives way to its replacement, left to right; a range
\* that begins inside an earlier one is not a range of its own.
RECURSIVE ReplaceAll(_, _, _)
ReplaceAll(text, rs, pos) ==
  LET ahead == {r \in rs : r.start >= pos}
  IN IF ahead = {} THEN SliceFrom(text, pos)
     ELSE LET r == CHOOSE x \in ahead :
                     \A y \in ahead : x.start < y.start
                                        \/ (x.start = y.start /\ x.end <= y.end)
          IN Slice(text, pos, r.start) \o r.replacement
               \o ReplaceAll(text, rs \ {r}, r.end)

Guarded(original) == <<"(">> \o original \o <<"||">> \o ELECTRON_FORCE_EXPR \o <<")">>

\* The rewrite the rule is meant to make: every gate declarator whose
\* initializer does not mention window.codexWindowType gets its initializer
\* wrapped, and nothing else changes.
ExpectedRewrite(text) ==
  ReplaceAll(text,
    { [start |-> n.init.start, end |-> n.init.end,
       replacement |-> Guarded(Slice(text, n.init.start, n.init.end))] :
        n \in {d \in GateDeclarators(text) :
                 ~Includes(Slice(text, d.init.start, d.init.end), WindowTypeMarker)} },
    0)

\* C1 (as claimed): after an apply run that succeeded, a second apply run on
\* the written bundle collects no patch, writes nothing, exits 0 and leaves
\* the text as the first run left it.
C1_Idempotent ==
  \A i \in SlashRuns :
    (/\ i < Len(hist)
     /\ ~hist[i].check /\ hist[i].collected /\ hist[i].exit = 0
     /\ ~hist[i + 1].check)
    => /\ hist[i + 1].collected
       /\ hist[i + 1].pairs = <<>>
       /\ hist[i + 1].writes = 0
       /\ hist[i + 1].exit = 0
       /\ hist[i + 1].after = hist[i].after

\* C2 (as claimed): an apply run that reaches the collector leaves the bundle
\* with exactly the initializers of the unguarded gate declarators wrapped and
\* every other character in place.
C2_ExactRewrite ==
  \A i \in SlashRuns :
    (~hist[i].check /\ hist[i].collected)
    => hist[i].after = ExpectedRewrite(hist[i].before)

\* C8 (as claimed): the patches handed to the splice loop have pairwise
\* non-overlapping ranges.
C8_NonOverlapping ==
  pc \in {"collected", "splice"}
  => \A i, j \in 1..Len(patches) :
       i # j => \/ patches[i].end <= patches[j].start
                \/ patches[j].end <= patches[i].start

FlagOccurs(text) == \E p \in 1..Len(text) : text[p] = GateDQ

\* The flag, in either quoting, occurs in the text only between the
\* delimiters of a comment.
FlagOnlyInComment(text) ==
  /\ FlagOccurs(text)
  /\ \A p \in 1..Len(text) :
       text[p] \in {GateDQ, GateSQ}
       => /\ p > 1 /\ text[p - 1] = "/*"
          /\ p < Len(text) /\ text[p + 1] = "*/"

\* C4 (as claimed): when the text holds the flag string and no node has the
\* declaration/call shape of the rule, an apply run reports drift and exits
\* nonzero.
C4_DriftAlwaysFatal ==
  \A i \in SlashRuns :
    (/\ ~hist[i].check /\ hist[i].collected
     /\ FlagOccurs(hist[i].before)
     /\ GateDeclarators(hist[i].before) = {})
    => hist[i].exit # 0 /\ hist[i].report = "drift"

\* C4 (amended): when the text holds the double-quoted flag literal, does not
\* hold window.codexWindowType==="electron", and no node has the shape of the
\* rule, an apply run reports drift, exits 1 and writes nothing.
C4_DriftFatalUnlessGuardPresent ==
  \A i \in SlashRuns :
    (/\ ~hist[i].check /\ hist[i].collected
     /\ FlagOccurs(hist[i].before)
     /\ ~Includes(hist[i].before, ELECTRON_FORCE_EXPR)
     /\ GateDeclarators(hist[i].before) = {})
    => /\ hist[i].exit = 1
       /\ hist[i].report = "drift"
       /\ hist[i].writes = 0
       /\ hist[i].after = hist[i].before

C4_Witness ==
  \E i \in SlashRuns :
    /\ ~hist[i].check /\ hist[i].collected
    /\ FlagOccurs(hist[i].before)
    /\ ~Includes(hist[i].before, ELECTRON_FORCE_EXPR)
    /\ GateDeclarators(hist[i].before) = {}
    /\ ~FlagOnlyInComment(hist[i].before)
    /\ hist[i].exit = 1

\* C5 (as claimed): when the flag occurs only inside a comment, an apply run
\* finds no match and does not end in the drift outcome.
C5_CommentNoDrift ==
  \A i \in SlashRuns :
    (~hist[i].check /\ hist[i].collected /\ FlagOnlyInComment(hist[i].before))
    => /\ hist[i].pairs = <<>>
       /\ hist[i].report # "drift"
       /\ hist[i].exit = 0

\* C5 (amended): when the flag occurs only inside a comment, an apply run
\* finds no match and writes nothing, and it does end in the drift outcome
\* (exit 1) unless the text holds window.codexWindowType==="electron", in
\* which case it reports the gate as already enabled and exits 0.
C5_CommentIsDrift ==
  \A i \in SlashRuns :
    (~hist[i].check /\ hist[i].collected /\ FlagOnlyInComment(hist[i].before))
    => /\ hist[i].pairs = <<>>
       /\ hist[i].writes = 0
       /\ hist[i].after = hist[i].before
       /\ IF Includes(hist[i].before, ELECTRON_FORCE_EXPR)
          THEN hist[i].exit = 0 /\ hist[i].report = "already_enabled"
          ELSE hist[i].exit = 1 /\ hist[i].report = "drift"

C5_Witness ==
  \E i \in SlashRuns :
    /\ ~hist[i].check /\ hist[i].collected
    /\ hist[i].before = CommentOnly
    /\ hist[i].report = "drift"

\* C6: a check run and an apply run over the same text report the same
\* sequence of (start offset, rule id) pairs.
C6_CheckApplyEquivalent ==
  \A i, j \in SlashRuns :
    (/\ hist[i].check /\ hist[i].collected
     /\ ~hist[j].check /\ hist[j].collected
     /\ hist[i].before = hist[j].before)
    => hist[i].pairs = hist[j].pairs

C6_Witness ==
  \E i, j \in SlashRuns :
    /\ hist[i].check /\ hist[i].collected
    /\ ~hist[j].check /\ hist[j].collected
    /\ hist[i].before = hist[j].before
    /\ Len(hist[j].pairs) >= 2

\* C9: a --check run of any of the scripts never writes its target file, and
\* once it has located (and, for the slash-commands script, parsed) the file
\* it exits 0 whatever it finds.
C9_CheckReadOnly ==
  /\ (isCheck /\ pc # "idle") => (writes = 0 /\ file = startFile)
  /\ \A i \in 1..Len(hist) :
       hist[i].check
       => /\ hist[i].writes = 0
          /\ hist[i].after = hist[i].before
          /\ hist[i].report \notin {"locator", "syntax"} => hist[i].exit = 0

C9_Witness ==
  \E i \in SlashRuns :
    /\ hist[i].check /\ hist[i].collected
    /\ Len(hist[i].pairs) >= 1
    /\ hist[i].exit = 0
    /\ file = hist[i].before

\* Neither quoting of the flag occurs in the text.
NoFlag(text) == \A p \in 1..Len(text) : text[p] \notin {GateDQ, GateSQ}

\* C10: an apply run of the slash-commands script writes the bundle exactly
\* when the collector produced a patch, and only as its last step; a text
\* without the flag gives no match, exit 0 and an untouched file.
C10_WriteIffPatched ==
  /\ (script = "slash" /\ pc # "idle") => (writes = 0 /\ file = startFile)
  /\ \A i \in SlashRuns :
       ~hist[i].check
       => /\ hist[i].writes = 1 <=> (hist[i].collected /\ Len(hist[i].pairs) >= 1)
          /\ hist[i].writes \in {0, 1}
          /\ hist[i].writes = 0 => hist[i].after = hist[i].before
          /\ (hist[i].collected /\ NoFlag(hist[i].before))
               => /\ hist[i].pairs = <<>>
                  /\ hist[i].exit = 0
                  /\ hist[i].after = hist[i].before

C10_Witness ==
  \E i \in SlashRuns :
    /\ ~hist[i].check /\ hist[i].collected
    /\ NoFlag(hist[i].before)
    /\ Len(hist[i].before) > 0
    /\ hist[i].exit = 0

(***************************************************************************)
(* The splice loop on arbitrary patch sets: a text of up to MaxText        *)
(* characters and up to MaxPatches patches with pairwise distinct starts   *)
(* and pairwise non-overlapping ranges, in any order, each replacement     *)
(* shorter than, as long as or longer than its range.                      *)
(***************************************************************************)
Chars == <<"c0", "c1", "c2", "c3", "c4", "c5", "c6", "c7">>
Texts == {SubSeq(Chars, 1, n) : n \in 0..MaxText}
Replacements == {<<>>, <<"x">>, <<"x", "y">>}

PatchesOn(text) ==
  { [start |-> a, end |-> b, replacement |-> r, original |-> Slice(text, a, b),
     ruleId |-> RULES[1]] :
      a \in 0..Len(text), b \in 0..Len(text), r \in Replacements } 

Disjoint(p, q) == p.end <= q.start \/ q.end <= p.start

RECURSIVE PatchSeqs(_, _)
\* Sequences of up to n patches, distinct starts, pairwise disjoint ranges.
PatchSeqs(text, n) ==
  IF n = 0 THEN {<<>>}
  ELSE LET shorter == PatchSeqs(text, n - 1)
       IN shorter \cup
          { Append(ps, p) : ps \in {q \in shorter : Len(q) = n - 1},
                            p \in {x \in PatchesOn(text) : x.start <= x.end} }

ValidPatchSeq(ps) ==
  \A i, j \in 1..Len(ps) :
    i # j => ps[i].start # ps[j].start /\ Disjoint(ps[i], ps[j])

SpliceInit ==
  /\ script = "slash"
  /\ located = [exists |-> TRUE, files |-> {<<"index-", "a1b2", ".js">>}]
  /\ file \in Texts
  /\ startFile = file
  /\ runs = 0
  /\ pc = "collected"
  /\ isCheck = FALSE
  /\ source = file
  /\ ast = NoAst
  /\ patches \in {ps \in PatchSeqs(file, MaxPatches) : ps # <<>> /\ ValidPatchSeq(ps)}
  /\ details = <<>>
  /\ code = <<>>
  /\ idx = 0
  /\ changed = FALSE
  /\ writes = 0
  /\ foundAny = FALSE
  /\ patchedAny = FALSE
  /\ hist = <<>>
  /\ ApartInit

SpliceNext ==
  \/ SortPatches
  \/ SpliceStep
  \/ WriteFile

SpliceSpec == SpliceInit /\ [][SpliceNext]_vars

\* C7: for patches with pairwise distinct starts and pairwise non-overlapping
\* ranges, the splice loop over the patches sorted by descending start ends
\* with the text obtained by replacing all the ranges of the original at once.
C7_SpliceIsSimultaneous ==
  (pc = "splice" /\ idx > Len(patches))
  => code = ReplaceAll(source, {patches[i] : i \in 1..Len(patches)}, 0)

C7_Witness ==
  /\ pc = "splice" /\ idx > Len(patches)
  /\ Len(patches) >= 2
  /\ \E i \in 1..Len(patches) :
       Len(patches[i].replacement) > patches[i].end - patches[i].start
  /\ \E i \in 1..Len(patches) :
       Len(patches[i].replacement) < patches[i].end - patches[i].start
  /\ code # source

(***************************************************************************)
(* Bundle location.                                                        *)
(***************************************************************************)
\* The assets directory exists and exactly one of its names is index-*.js.
SlashLocatable ==
  /\ located.exists
  /\ \E f \in located.files :
       /\ IsIndexBundle(f)
       /\ \A g \in located.files : IsIndexBundle(g) => g = f

\* main.js exists, holds a require("./main-<hash>.js"), and the file its
\* first such reference names exists.
PerfLocatable ==
  /\ located.exists
  /\ LET refs == {p \in 1..(Len(located.entry) - 2) :
                    /\ located.entry[p] = RequireOpen
                    /\ MainBasename(located.entry[p + 1]) # ""
                    /\ located.entry[p + 2] = RequireClose}
     IN /\ refs # {}
        /\ \E p \in refs :
             /\ \A q \in refs : p <= q
             /\ MainBasename(located.entry[p + 1]) \in located.files

\* C11: a run of the slash-commands or the performance script gets past its
\* locator only when the bundle can be located unambiguously; otherwise it
\* ends with exit 1 at the locator, having read, parsed, patched and written
\* nothing.
C11_LocatorFailsClosed ==
  script \in {"slash", "perf"} =>
    LET ok == IF script = "slash" THEN SlashLocatable ELSE PerfLocatable
    IN /\ pc \notin {"idle", "locate"} => ok
       /\ ~ok => (file = startFile /\ source = <<>> /\ ast = NoAst /\ writes = 0)
       /\ \A i \in 1..Len(hist) :
            IF ok
            THEN hist[i].report # "locator"
            ELSE /\ hist[i].exit = 1
                 /\ hist[i].report = "locator"
                 /\ ~hist[i].collected
                 /\ hist[i].writes = 0
                 /\ hist[i].after = hist[i].before

C11_Witness ==
  /\ script = "slash"
  /\ located.exists
  /\ Cardinality({f \in located.files : IsIndexBundle(f)}) = 2
  /\ Len(hist) >= 1
  /\ hist[1].exit = 1
  /\ hist[1].report = "locator"

(***************************************************************************)
(* walk on its own: one call on a tree of any shape.                       *)
(***************************************************************************)
\* No script is running.
ScriptsIdle ==
  /\ script = "slash"
  /\ located = [exists |-> FALSE, files |-> {}]
  /\ file = <<>>
  /\ startFile = <<>>
  /\ runs = 0
  /\ pc = "idle"
  /\ isCheck = FALSE
  /\ source = <<>>
  /\ ast = NoAst
  /\ patches = <<>>
  /\ details = <<>>
  /\ code = <<>>
  /\ idx = 0
  /\ changed = FALSE
  /\ writes = 0
  /\ foundAny = FALSE
  /\ patchedAny = FALSE
  /\ hist = <<>>

\* The values of depth <= d below the position id: null, a primitive, an
\* object without `type`, arrays, and nodes whose fields hold any of these.
\* A node carries its position in `start`, so that equal nodes are the same
\* node.
RECURSIVE WalkValues(_, _)
WalkValues(d, id) ==
  LET leaf == [k |-> "node", type |-> "Identifier", start |-> id, end |-> id,
               name |-> Prim("x")]
      base == {NullV, Prim("x"), Obj(<<>>), leaf}
  IN IF d = 0 THEN base
     ELSE LET a == WalkValues(d - 1, 3 * id + 1)
              b == WalkValues(d - 1, 3 * id + 2)
          IN base
             \cup {[k |-> "node", type |-> "ExpressionStatement",
                    start |-> id, end |-> id, expression |-> v] : v \in a}
             \cup {[k |-> "node", type |-> "BlockStatement", start |-> id,
                    end |-> id, body |-> Arr(<<v, w>>)] : v \in a, w \in b}
             \cup {Obj(<<v>>) : v \in a}
             \cup {Arr(<<v>>) : v \in a}

WalkInit ==
  /\ ScriptsIdle
  /\ StartupIdle
  /\ LoggerIdle
  /\ walkIn \in WalkValues(MaxDepth, 0)
  /\ walkOut = [done |-> FALSE]

\* walk(root, node => calls.push(node))
WalkCall ==
  /\ ~walkOut.done
  /\ walkOut' = [done |-> TRUE, calls |-> walk(walkIn)]
  /\ UNCHANGED <<walkIn, scriptVars, startup, perfLog>>

WalkNext == WalkCall

WalkSpec == WalkInit /\ [][WalkNext]_vars

\* The values with a string `type` that a field of v holds, or that an
\* array held by a field of v holds.
TaggedChildren(v) ==
  IF v.k \in {"null", "prim"} THEN {}
  ELSE LET held == {Field(v, OwnKeys(v)[i]) : i \in 1..Len(OwnKeys(v))}
       IN {c \in held : c.k = "node"}
            \cup UNION {{c.items[j] : j \in {j \in 1..Len(c.items) :
                                                 c.items[j].k = "node"}} :
                         c \in {c \in held : c.k = "array"}}

\* The nodes reachable from the nodes of `frontier` through tagged links.
RECURSIVE ReachFrom(_, _)
ReachFrom(frontier, seen) ==
  IF frontier = {} THEN seen
  ELSE LET next == UNION {TaggedChildren(v) : v \in frontier}
       IN ReachFrom(next \ seen, seen \cup next)

\* C12: walk hands to the visitor the root (whenever it is an object) and
\* every node reachable from it through fields and array elements carrying a
\* string `type`, each exactly once, a parent before its children, and
\* nothing else; a value without a string `type` below the root is never
\* handed over.
C12_WalkVisitsEachOnce ==
  walkOut.done =>
    LET out == walkOut.calls
        expected == {walkIn} \cup ReachFrom({walkIn}, {})
    IN IF walkIn.k \in {"null", "prim"} THEN out = <<>>
       ELSE /\ out[1] = walkIn
            /\ \A n \in expected :
                 Cardinality({i \in 1..Len(out) : out[i] = n}) = 1
            /\ \A i \in 1..Len(out) :
                 /\ out[i] \in expected
                 /\ i > 1 => out[i].k = "node"
                 /\ \A j \in 1..Len(out) :
                      out[j] \in TaggedChildren(out[i]) => i < j

\* A block whose array holds a node with a child of its own and an object
\* without `type` that holds a node.
C12_Witness ==
  /\ walkOut.done
  /\ walkIn.k = "node"
  /\ walkIn.type = "BlockStatement"
  /\ walkIn.body.items[1].k = "node"
  /\ walkIn.body.items[1].type = "ExpressionStatement"
  /\ walkIn.body.items[1].expression.k = "node"
  /\ walkIn.body.items[2].k = "object"
  /\ Len(walkIn.body.items[2].fields) = 1
  /\ walkIn.body.items[2].fields[1].k = "node"
  /\ Len(walkOut.calls) = 3

(***************************************************************************)
(* Performance patch, repeated runs.                                       *)
(***************************************************************************)
\* Records of the finished performance-patch processes.
PerfRuns == IF script = "perf" THEN 1..Len(hist) ELSE {}

\* The marker of stage n.
StageMarker(n) ==
  <<PERF_MARKER, WINDOW_MARKER, STARTUP_MARKER, DIAG_MARKER, PROCESS_MARKER>>[n]

\* C13: a stage whose marker is in the text returns the text as it is with
\* changed = false, and an apply run that follows an apply run which ended
\* with exit 0 writes nothing and ends with exit 0.
C13_PerfIdempotent ==
  /\ (script = "perf" /\ pc = "stage" /\ idx <= 5
        /\ hasMarker(code, StageMarker(idx)))
       => Stage(idx, code) = StageOk(FALSE, code)
  /\ \A i, j \in PerfRuns :
       (i < j /\ ~hist[i].check /\ hist[i].exit = 0 /\ ~hist[j].check)
         => /\ hist[j].exit = 0
            /\ hist[j].writes = 0
            /\ hist[j].after = hist[j].before

(***************************************************************************)
(* node-pty Spectre patch, repeated runs.                                  *)
(***************************************************************************)
\* Records of the finished node-pty patch processes, either version.
PtyRuns == IF script \in {"pty", "pty2"} THEN 1..Len(hist) ELSE {}

\* C14: an apply run that follows an apply run which removed a block and
\* ended with exit 0 writes nothing and ends with exit 0.
C14_PtyIdempotent ==
  \A i, j \in PtyRuns :
    (i < j /\ ~hist[i].check /\ hist[i].exit = 0 /\ hist[i].writes >= 1
       /\ ~hist[j].check)
      => /\ hist[j].exit = 0
         /\ hist[j].writes = 0
         /\ hist[j].after = hist[j].before

(***************************************************************************)
(* The whenReady callback injectWhenReadyOptimization writes into the main *)
(* bundle, one action per stretch of code between two awaits.              *)
(***************************************************************************)
\* Values of process.env.NAME: undefined, or a string.
EnvValues == {NullV, Prim(""), Prim("0"), Prim("1"), Prim("false"), Prim("true")}

\* !!process.env.NAME && process.env.NAME !== "0"
envSwitch(v) == v.k = "prim" /\ v.v # "" /\ v.v # "0"

\* __codexDefer taken from __codexPerfConfig.deferInit.
codexDeferFromConfig(__codexDeferEnv, isPackaged) == envSwitch(__codexDeferEnv)

\* const __codexDefer = __codexDeferEnv == null ? U.app.isPackaged
\*   : !(__codexDeferEnv === "0" || __codexDeferEnv === "false")
__codexDefer(__codexDeferEnv, isPackaged) ==
  IF __codexDeferEnv.k = "null" THEN isPackaged
  ELSE ~(__codexDeferEnv.v = "0" \/ __codexDeferEnv.v = "false")

PrimaryWindow == "startup.primary_window.create"

\* The steps of the setImmediate callback, in the order of its text.
DeferredSteps ==
  <<"sparkle.initialize", "globalState.prune", "devtools.install",
    "hosts.refresh", "deeplinks.flush">>

\* The awaited calls of the callback when init is not deferred, in order.
EagerSteps ==
  <<"sparkle.initialize", "globalState.prune", "hosts.refresh", PrimaryWindow,
    "deeplinks.flush">>

\* A call begins, or a promise settles: one more entry of the trace.
Log(s, step, what) == [s EXCEPT !.trace = Append(@, <<step, what>>)]

\* After `const __codexDefer = ...`: the deferred branch up to `await
\* Dc(Ot)`, or the rest of the callback up to `await SS.initialize()`.
Decide(s) ==
  IF __codexDefer(s.deferEnv, s.isPackaged)
  THEN [Log(Log(s, "startup.defer_init", "enabled"), PrimaryWindow, "begin")
          EXCEPT !.pc = "window", !.defer = "yes"]
  ELSE [Log(s, EagerSteps[1], "begin")
          EXCEPT !.pc = "eager", !.step = 1, !.defer = "no"]

\* BeginDeferred that leaves through the outer catch once a step has failed.
BeginDeferredUnlessFailed(s, i) ==
  LET j == IF i = 3 /\ ~s.devtools THEN 4 ELSE i
  IN IF s.trace[Len(s.trace)][2] = "error"
     THEN [Log(s, "startup.post_show_init", "fatal") EXCEPT !.imm = "done"]
     ELSE IF j > Len(DeferredSteps)
     THEN [Log(s, "startup.post_show_init", "end") EXCEPT !.imm = "done"]
     ELSE [Log(s, DeferredSteps[j], "begin") EXCEPT !.imm = "await", !.step = j]

\* The callback of setImmediate on reaching deferred step i: the steps that
\* does not skip begin, or post_show_init.end when none is left.
BeginDeferred(s, i) ==
  LET j == IF i = 3 /\ ~s.devtools THEN 4 ELSE i
  IN IF j > Len(DeferredSteps)
     THEN [Log(s, "startup.post_show_init", "end") EXCEPT !.imm = "done"]
     ELSE [Log(s, DeferredSteps[j], "begin") EXCEPT !.imm = "await", !.step = j]

StartupInit ==
  /\ ScriptsIdle
  /\ WalkIdle
  /\ LoggerIdle
  /\ startup \in
       [pc : {"start"}, imm : {"none"}, step : {0}, defer : {"undecided"},
        deferEnv : EnvValues, isPackaged : BOOLEAN, isInternal : BOOLEAN,
        devtools : BOOLEAN, devtoolsCall : {"none"}, trace : {<<>>}]

\* app.whenReady.begin, registerProtocolClient, ..., Xe.isInternal(dn): up to
\* the await of the devbox cache refresher, or on to __codexDefer.
WhenReadyBegin ==
  /\ startup.pc = "start"
  /\ LET s == Log(startup, "app.whenReady", "begin")
     IN startup' = IF s.isInternal THEN [s EXCEPT !.pc = "devbox"]
                   ELSE Decide(s)
  /\ UNCHANGED <<scriptVars, walkIn, walkOut, perfLog>>

\* The import of the devbox cache refresher settles; a failure is caught.
DevboxSettles(ok) ==
  /\ startup.pc = "devbox"
  /\ startup' = Decide(IF ok THEN startup
                       ELSE Log(startup, "appliedDevboxCacheRefresher", "error"))
  /\ UNCHANGED <<scriptVars, walkIn, walkOut, perfLog>>

\* await Dc(Ot) in the deferred branch settles: setImmediate(...),
\* app.whenReady.end and return; or create.error and throw t.
WindowSettles(ok) ==
  /\ startup.pc = "window"
  /\ startup' =
       IF ok
       THEN [Log(Log(startup, PrimaryWindow, "end"), "app.whenReady", "end")
               EXCEPT !.pc = "returned", !.imm = "queued"]
       ELSE [Log(startup, PrimaryWindow, "error") EXCEPT !.pc = "rejected"]
  /\ UNCHANGED <<scriptVars, walkIn, walkOut, perfLog>>

\* The event loop runs the callback of setImmediate up to its first await.
ImmediateRuns ==
  /\ startup.pc = "returned"
  /\ startup.imm = "queued"
  /\ startup' = BeginDeferred(Log(startup, "startup.post_show_init", "begin"), 1)
  /\ UNCHANGED <<scriptVars, walkIn, walkOut, perfLog>>

\* The awaited call of a deferred step settles; its own catch takes a
\* failure, and the callback goes on to the next step.
DeferredSettles(ok) ==
  /\ startup.pc = "returned"
  /\ startup.imm = "await"
  /\ startup' = BeginDeferred(Log(startup, DeferredSteps[startup.step],
                                  IF ok THEN "end" ELSE "error"),
                              startup.step + 1)
  /\ UNCHANGED <<scriptVars, walkIn, walkOut, perfLog>>

\* An awaited call of the callback without deferral settles: a failure
\* rejects the callback; after Qle(eo) the devtools install is called and
\* not awaited; after the last call app.whenReady.end.
EagerSettles(ok) ==
  /\ startup.pc = "eager"
  /\ LET s == Log(startup, EagerSteps[startup.step], IF ok THEN "end" ELSE "error")
         called == IF startup.step = 2 /\ s.devtools
                   THEN [Log(s, "devtools.install", "begin")
                           EXCEPT !.devtoolsCall = "pending"]
                   ELSE s
     IN startup' =
          IF ~ok THEN [s EXCEPT !.pc = "rejected"]
          ELSE IF startup.step = Len(EagerSteps)
          THEN [Log(s, "app.whenReady", "end") EXCEPT !.pc = "returned"]
          ELSE [Log(called, EagerSteps[startup.step + 1], "begin")
                  EXCEPT !.step = startup.step + 1]
  /\ UNCHANGED <<scriptVars, walkIn, walkOut, perfLog>>

\* The devtools install called without await settles; .catch takes a failure.
EagerDevtoolsSettles(ok) ==
  /\ startup.devtoolsCall = "pending"
  /\ startup' = [Log(startup, "devtools.install", IF ok THEN "end" ELSE "error")
                   EXCEPT !.devtoolsCall = "settled"]
  /\ UNCHANGED <<scriptVars, walkIn, walkOut, perfLog>>

StartupNext ==
  \/ WhenReadyBegin
  \/ \E ok \in BOOLEAN : DevboxSettles(ok)
  \/ \E ok \in BOOLEAN : WindowSettles(ok)
  \/ ImmediateRuns
  \/ \E ok \in BOOLEAN : DeferredSettles(ok)
  \/ \E ok \in BOOLEAN : EagerSettles(ok)
  \/ \E ok \in BOOLEAN : EagerDevtoolsSettles(ok)

StartupSpec == StartupInit /\ [][StartupNext]_vars

DeferredBegins ==
  {i \in 1..Len(startup.trace) :
     /\ startup.trace[i][2] = "begin"
     /\ \E k \in 1..Len(DeferredSteps) : startup.trace[i][1] = DeferredSteps[k]}

\* The place of a deferred step in the fixed order.
StepIndex(name) == CHOOSE k \in 1..Len(DeferredSteps) : DeferredSteps[k] = name

\* C17: with deferral enabled, a deferred step begins only after the primary
\* window has been created; the deferred steps begin in the fixed order, each
\* at most once; a step that fails is followed at once by the next step, so
\* that every step has begun when the deferred callback ends; and when the
\* creation of the primary window fails no deferred step ever begins.
C17_DeferredAfterWindow ==
  startup.defer = "yes" =>
    LET t == startup.trace
    IN /\ \A j \in DeferredBegins :
            \E i \in 1..(j - 1) : t[i] = <<PrimaryWindow, "end">>
       /\ \A i, j \in DeferredBegins :
            i < j => StepIndex(t[i][1]) < StepIndex(t[j][1])
       /\ \A i \in 1..Len(t) :
            (t[i][2] = "error" /\ t[i][1] # PrimaryWindow
               /\ t[i][1] # "appliedDevboxCacheRefresher")
              => /\ i < Len(t)
                 /\ \/ i + 1 \in DeferredBegins
                    \/ t[i + 1] = <<"startup.post_show_init", "end">>
       /\ startup.imm = "done"
            => \A k \in 1..Len(DeferredSteps) :
                 (k # 3 \/ startup.devtools)
                   => \E i \in DeferredBegins : t[i][1] = DeferredSteps[k]
       /\ (\E i \in 1..Len(t) : t[i] = <<PrimaryWindow, "error">>)
            => /\ DeferredBegins = {}
               /\ startup.imm = "none"
               /\ startup.pc = "rejected"

C17_Witness ==
  /\ startup.defer = "yes"
  /\ startup.imm = "done"
  /\ \E i, j \in 1..Len(startup.trace) :
       /\ i < j
       /\ startup.trace[i] = <<"globalState.prune", "error">>
       /\ startup.trace[j] = <<"deeplinks.flush", "end">>

\* The creation of the primary window has failed.
C17_WindowFails ==
  /\ startup.defer = "yes"
  /\ startup.pc = "rejected"

(***************************************************************************)
(* The perf logger injectPerfHelpers writes into the main bundle:          *)
(* __codexPerfConfig with its closure variables pending and flushTimer.    *)
(* marked, appended, stderr and timers record what was passed to mark(),   *)
(* to fs.appendFile, to process.stderr.write, and how many setTimeout      *)
(* callbacks are waiting.                                                  *)
(***************************************************************************)
MaxMarks == 3

\* Names of the marks; the call sites pass data JSON.stringify accepts.
MarkNames == {"app.whenReady.begin", "window.created", "window.show"}

\* function flush(){flushTimer=null;if(pending.length===0)return;...
\* pending=[];try{fs.appendFile(resolveLogFile(),out,()=>{})}catch{}}
flush(l) ==
  IF Len(l.pending) = 0
  THEN [l EXCEPT !.flushTimer = FALSE]
  ELSE [l EXCEPT !.flushTimer = FALSE, !.pending = <<>>,
                 !.appended = @ \o l.pending]

\* mark that calls setTimeout whether or not a timer is waiting.
markAlwaysSchedules(l, rec) ==
  IF ~l.enabled THEN l
  ELSE [l EXCEPT !.pending = Append(@, rec),
                 !.stderr = IF l.verbose THEN Append(@, rec) ELSE @,
                 !.flushTimer = TRUE, !.timers = @ + 1]

\* function mark(name,data){if(!enabled)return;...pending.push(line);
\* if(verbose)try{process.stderr.write(line+"\n")}catch{};
\* if(!flushTimer)flushTimer=setTimeout(flush,50)}
mark(l, rec) ==
  IF ~l.enabled THEN l
  ELSE [l EXCEPT !.pending = Append(@, rec),
                 !.stderr = IF l.verbose THEN Append(@, rec) ELSE @,
                 !.flushTimer = TRUE,
                 !.timers = IF l.flushTimer THEN @ ELSE @ + 1]

\* The closure of __codexPerfConfig after the bundle has been loaded.
LoggerInit ==
  /\ ScriptsIdle
  /\ WalkIdle
  /\ StartupIdle
  /\ \E log \in EnvValues, err \in EnvValues :
       perfLog = [pc |-> "on", enabled |-> envSwitch(log),
                  verbose |-> envSwitch(err), pending |-> <<>>,
                  flushTimer |-> FALSE, timers |-> 0, marked |-> <<>>,
                  appended |-> <<>>, stderr |-> <<>>]

\* function __codexPerfMark(name,data){try{__codexPerfConfig.mark(name,data)}
\* catch{}}: the record carries its name and the place of the call.
PerfMark(name) ==
  /\ perfLog.pc = "on"
  /\ Len(perfLog.marked) < MaxMarks
  /\ LET rec == <<Len(perfLog.marked) + 1, name>>
     IN perfLog' = [mark(perfLog, rec) EXCEPT !.marked = Append(@, rec)]
  /\ UNCHANGED <<scriptVars, walkIn, walkOut, startup>>

\* A callback of setTimeout(flush, 50) runs.
TimerFires ==
  /\ perfLog.pc = "on"
  /\ perfLog.timers > 0
  /\ perfLog' = [flush(perfLog) EXCEPT !.timers = @ - 1]
  /\ UNCHANGED <<scriptVars, walkIn, walkOut, startup>>

LoggerNext ==
  \/ \E name \in MarkNames : PerfMark(name)
  \/ TimerFires

LoggerSpec == LoggerInit /\ [][LoggerNext]_vars

\* The event loop runs every timer callback that is due.
LoggerFairSpec == LoggerSpec /\ WF_vars(TimerFires)

\* What holds of the logger in every state.
LoggerSafe ==
  /\ perfLog.timers <= 1
  /\ perfLog.flushTimer = (perfLog.timers = 1)
  /\ perfLog.pending # <<>> => perfLog.flushTimer
  /\ perfLog.enabled => perfLog.marked = perfLog.appended \o perfLog.pending
  /\ ~perfLog.enabled
       => /\ perfLog.pending = <<>>
          /\ perfLog.appended = <<>>
          /\ perfLog.timers = 0
          /\ ~perfLog.flushTimer

\* C16: with CODEX_PERF_LOG enabled the records passed to mark() are, in the
\* order of the calls and each once, those handed to fs.appendFile followed
\* by those still pending; at most one flush timer is waiting; a non-empty
\* pending queue has a timer; every marked record is eventually handed to
\* fs.appendFile when the timers fire.  With logging not enabled nothing is
\* queued and no timer is set.
C16_LoggerFlushes ==
  /\ []LoggerSafe
  /\ \A n \in 1..MaxMarks :
       (perfLog.enabled /\ Len(perfLog.marked) >= n)
         ~> (Len(perfLog.appended) >= n /\ perfLog.appended[n] = perfLog.marked[n])

C16_Witness ==
  /\ perfLog.enabled
  /\ Len(perfLog.marked) = MaxMarks
  /\ Len(perfLog.appended) = 2
  /\ Len(perfLog.pending) = 1
  /\ perfLog.timers = 1

\* Logging is not enabled and mark() has been called.
C16_DisabledWitness ==
  /\ ~perfLog.enabled
  /\ Len(perfLog.marked) = MaxMarks

\* The texts the rewrites of injectDiagnosticsMarks put in place of their
\* needles: the install marker, then the five handlers.
DiagRewrites ==
  << <<InstallNeedle, DIAG_MARKER, "webcontents.diagnostics.install">>,
     GoneNeedle \o <<"webcontents.render_process_gone">>,
     <<FinishNeedle[1], "webcontents.did_finish_load", FinishNeedle[2]>>,
     UnresponsiveNeedle \o <<"webcontents.unresponsive">>,
     FailLoadNeedle \o <<"webcontents.did_fail_load">>,
     <<ReloadNeedle[1], "webcontents.crash_recover.reload", ReloadNeedle[2]>> >>

\* An apply run has come past injectDiagnosticsMarks, which returned
\* changed=true: the text read from disk had no diagnostics marker.
DiagnosticsChanged ==
  /\ script = "perf"
  /\ pc = "stage"
  /\ idx >= 5
  /\ ~hasMarker(source, DIAG_MARKER)

\* C18: when injectDiagnosticsMarks has returned changed=true in an apply
\* run, the text holds the install marker and each of the five rewritten
\* handlers; a run in which one of the needles is absent does not come past
\* the stage.
C18_DiagnosticsFailClosed ==
  DiagnosticsChanged =>
    \A k \in 1..Len(DiagRewrites) : Includes(code, DiagRewrites[k])

\* The slash-commands and the performance script.
BundleScripts == {"slash", "perf"}

\* C19: in the slash-commands and the performance script the bundle on disk
\* is the one the run started with as long as the run goes on; a run that
\* ends with a nonzero exit code has written nothing and leaves the bundle as
\* it was; a run writes the bundle at most once, and then ends with exit 0.
C19_NoPartialOutput ==
  script \in BundleScripts =>
    /\ pc # "idle" => (file = startFile /\ writes = 0)
    /\ (pc = "idle" /\ Len(hist) > 0) => hist[Len(hist)].after = file
    /\ \A i \in 1..Len(hist) :
         /\ hist[i].writes <= 1
         /\ hist[i].writes = 1 => hist[i].exit = 0
         /\ hist[i].exit # 0
              => (hist[i].after = hist[i].before /\ hist[i].writes = 0)

\* A performance run has ended at the diagnostics stage or after it, on a
\* bundle that the stages before it changed in memory.
C19_Witness ==
  /\ script = "perf"
  /\ pc = "idle"
  /\ \E i \in 1..Len(hist) :
       /\ hist[i].exit = 1
       /\ hist[i].report = "needle"
       /\ hist[i].pairs \in {<<4>>, <<5>>}
       /\ ~hasMarker(hist[i].before, PERF_MARKER)
       /\ hist[i].after = hist[i].before

\* A slash-commands run has ended with a nonzero exit code.
C19_SlashWitness ==
  /\ script = "slash"
  /\ \E i \in 1..Len(hist) : hist[i].exit # 0 /\ hist[i].report # "locator"

====
